---------------------------- MODULE Spec2Model ----------------------------
(***************************************************************************)
(* FocusNook: the Google Drive storage adapter (services/googleDrive),     *)
(* the application shell that boots and persists through the storage       *)
(* facade (App), and the Todoist task normalisation (services/todoistApi). *)
(*                                                                         *)
(* JavaScript is single threaded: every action below is one run-to-        *)
(* completion step, from an event (a call, a timer, a network response, a  *)
(* script tag's onload) to the next await that waits for the outside.      *)
(***************************************************************************)
EXTENDS Integers, Sequences, FiniteSets, TLC

(***************************************************************************)
(* Bounds of the model.                                                    *)
(***************************************************************************)
MaxNow == 3          \* the clock stops ticking here
MaxInFlight == 2     \* PATCH requests in flight at once
MaxTags == 2         \* script tags of one library the model lets the page hold
MaxTasks == 2        \* tasks in one upstream Todoist response
MaxSpaces == 2       \* custom spaces the page holds
MaxClicks == 3       \* bringWidgetToFront calls on one page

(***************************************************************************)
(* The 3550 s session-token lifetime of saveToken, in clock ticks          *)
(* (one tick is 1775 s).                                                   *)
(***************************************************************************)
TokenLifeTicks == 2

(***************************************************************************)
(* JSON values.  A value is its JavaScript type and a payload: a number's  *)
(* value, a boolean's 0/1, a string's length, an object's identity (0 is   *)
(* the empty document {}).  Absent is a key an object does not have        *)
(* (undefined), JNull is null.                                             *)
(***************************************************************************)
JV(t, n) == [type |-> t, val |-> n]
JNull == JV("null", 0)
Absent == JV("undefined", 0)
JZero == JV("number", 0)
JFalse == JV("boolean", 0)
JEmptyStr == JV("string", 0)
JEmptyObj == JV("object", 0)
JObjA == JV("object", 1)
JEmptyArray == JV("array", 0)
Falsy == {JZero, JFalse, JEmptyStr}
Values == Falsy \cup {JEmptyObj, JObjA}

\* JavaScript's ToBoolean, as `x || y` and `if (x)` apply it.
Truthy(v) ==
    CASE v.type = "number" -> v.val # 0
      [] v.type = "boolean" -> v.val = 1
      [] v.type = "string" -> v.val # 0
      [] v.type \in {"object", "array"} -> TRUE
      [] OTHER -> FALSE

\* a || b
OrElse(a, b) == IF Truthy(a) THEN a ELSE b

\* The logical keys of the persisted document the model follows.
Keys == {"focusnook-settings", "focusnook-custom-spaces", "chillspace-custom-spaces",
         "focusnook-widget-visibility"}
\* The key a direct client of the adapter reads and writes.
ClientKeys == {"focusnook-settings"}
Docs == [Keys -> Values \cup {Absent}]
EmptyDoc == [k \in Keys |-> Absent]
\* Object.keys(doc).length === 0
IsEmptyDoc(d) == \A k \in Keys : d[k] = Absent

\* An optional value: <<>> is null, <<x>> is x.
None == <<>>
Some(x) == <<x>>

\* localStorage holds strings: String(n) on the way in, Number(s) on the way out.
NumToStr(n) == [str |-> n]
StrToNum(s) == s.str

\* localStorage with nothing stored
EmptyStore == [k \in Keys |-> None]

(***************************************************************************)
(* App: the persisted state items, the key loadData reads each from, the   *)
(* key its write-through effect writes, and its useState default.          *)
(***************************************************************************)
Items == {"settings", "customSpaces", "widgetVisibility"}
\* the items the settings panel and the space browser change
PanelItems == {"settings", "customSpaces"}
ReadKey(i) ==
    CASE i = "settings" -> "focusnook-settings"
      [] i = "customSpaces" -> "focusnook-custom-spaces"
      [] OTHER -> "focusnook-widget-visibility"
\* every effect writing the key of the custom spaces
WriteKey_OneKey(i) == "chillspace-custom-spaces"

WriteKey(i) ==
    CASE i = "settings" -> "focusnook-settings"
      [] i = "customSpaces" -> "chillspace-custom-spaces"
      [] OTHER -> "focusnook-widget-visibility"
ReadKeys == {ReadKey(i) : i \in Items}

\* useState({widgetOpacity: 1, ...}) and useState([])
JDefaultSettings == JV("object", 2)
\* useState({pomodoro: true, sounds: false, ...}), and the same with one widget toggled
JDefaultVisibility == JV("object", 5)
JToggledVisibility == JV("object", 6)
Default(i) ==
    CASE i = "settings" -> JDefaultSettings
      [] i = "customSpaces" -> JEmptyArray
      [] OTHER -> JDefaultVisibility
Defaults == [i \in Items |-> Default(i)]

\* what the user makes of an item: updateSettings(...), addSpace(...)
JUserSettings == JV("object", 3)
JUserSpaces == JV("array", 1)
UserValue(i) == IF i = "settings" THEN JUserSettings ELSE JUserSpaces

\* toggleWidgetVisibility: [widgetId]: !prev[widgetId]
Toggled(v) == IF v = JToggledVisibility THEN JDefaultVisibility ELSE JToggledVisibility

\* settings an earlier session left in localStorage, and in no other place
JLocalSettings == JV("object", 4)

\* loadData's Promise.all: no read in progress
NoLoad == [active |-> FALSE, by |-> "", got |-> [k \in ReadKeys |-> Absent]]

VARIABLES
    \* services/googleDrive: module-level state
    scriptsPromise,   \* 0 (null) or the identity of the promise
    promiseState,     \* "pending" | "resolved" | "rejected" : the promise's state
    gapiInited, gisInited, tokenClient,
    accessToken,      \* None or Some(token)
    tokenExpiry,      \* None or Some(time)
    configFileId,     \* "null" | "undefined" | "file"
    \* GoogleDriveAdapter instance
    cache, saveTimeout,
    \* the page: script tags, timers, localStorage, clock
    script1, script2, tags1, tags2, handed,
    timers, lsToken, lsExpiry, lsType, lsData, now,
    \* Google Drive: the file named focusnook-data.json, requests in flight
    remote, flights, hydrating,
    \* the asynchronous call in progress on the adapter
    sess,
    \* what the last step did that a caller or the network can observe
    obs, lastSet, burst,
    \* the removeItem calls no setItem of the key came after, each with
    \* whether it has returned; kept for the calls made while no request of
    \* the adapter was outstanding
    removed,
    \* Todoist
    upstream, tasksOut,
    \* App: the spaces, the planner hours of the settings, the widgets' z-index
    customSpaces, currentSpace, plannerStartHour, plannerEndHour,
    widgetZIndices, zIndexCounter,
    \* server/routes/todoist: the request the proxy answered last
    proxy,
    \* App: the storage facade's adapter and the shell
    adapter, isLoading, needsDriveAuth, state, boot, load

scriptVars == <<scriptsPromise, promiseState, gapiInited, gisInited, tokenClient,
                script1, script2, tags1, tags2, handed>>
tokenVars == <<accessToken, tokenExpiry, lsToken, lsExpiry>>
itemVars == <<cache, saveTimeout, timers, flights, hydrating, lastSet, removed, burst>>
todoistVars == <<upstream, tasksOut>>
deskVars == <<customSpaces, currentSpace, plannerStartHour, plannerEndHour,
             widgetZIndices, zIndexCounter>>
apartVars == <<deskVars, proxy>>
shellVars == <<adapter, isLoading, needsDriveAuth, state, boot, load>>
vars == <<scriptVars, tokenVars, itemVars, configFileId, lsType, lsData, now,
          remote, sess, obs, todoistVars, apartVars, shellVars>>

(***************************************************************************)
(* Observations.                                                           *)
(***************************************************************************)
NoObs == [ev |-> "none", req |-> "", by |-> "", expired |-> FALSE,
          key |-> "", val |-> JNull, want |-> Absent,
          body |-> EmptyDoc, burst |-> [k \in Keys |-> "no"],
          got |-> EmptyDoc, wrote |-> {}, seen |-> "",
          failed |-> FALSE, raised |-> FALSE, recovered |-> FALSE,
          alerted |-> FALSE]
Obs(e) == [NoObs EXCEPT !.ev = e]


(***************************************************************************)
(* loadGoogleScripts and the two script tags it appends.                   *)
(***************************************************************************)
\* the singleton check left out
HasScriptsPromise_Unchecked == FALSE

\* if (scriptsPromise) return scriptsPromise;
HasScriptsPromise == scriptsPromise # 0

\* window.google && window.gapi: each global exists once its script has run
WindowHasGoogleAndGapi ==
    /\ script1 \in {"initing", "done", "initfail"}
    /\ script2 \in {"done", "threw"}

\* resolve() and reject() settle a promise once
Settle(how) == promiseState' = IF promiseState = "pending" THEN how ELSE promiseState

\* the promise a call returns joins the promises handed out to callers
Handed(p) == handed \cup {p}

\* what a caller of loadGoogleScripts got: the promise there was, or a new one
ScriptsCall == [Obs("call") EXCEPT !.by = IF HasScriptsPromise THEN "reuse" ELSE "new"]

LoadGoogleScripts ==
    IF HasScriptsPromise
    THEN /\ handed' = Handed(scriptsPromise)
         /\ UNCHANGED <<scriptsPromise, promiseState, gapiInited, gisInited,
                        tokenClient, script1, script2, tags1, tags2>>
    ELSE /\ scriptsPromise' = tags1 + 1
         /\ handed' = Handed(tags1 + 1)
         /\ IF WindowHasGoogleAndGapi
            THEN /\ promiseState' = "resolved"
                 /\ UNCHANGED <<script1, script2, tags1, tags2>>
            ELSE /\ tags1 < MaxTags /\ tags2 < MaxTags
                 /\ promiseState' = "pending"
                 /\ script1' = "loading" /\ tags1' = tags1 + 1
                 /\ script2' = "loading" /\ tags2' = tags2 + 1
         /\ UNCHANGED <<gapiInited, gisInited, tokenClient>>

nonScriptVars == <<tokenVars, itemVars, configFileId, lsType, lsData, now,
                   remote, sess, todoistVars, apartVars>>

\* script1.onload: gapi.load('client', ...) starts gapi.client.init
Script1OnLoad ==
    /\ script1 = "loading"
    /\ script1' = "initing"
    /\ obs' = Obs("script")
    /\ UNCHANGED <<scriptsPromise, promiseState, gapiInited, gisInited, tokenClient,
                   script2, tags1, tags2, handed, nonScriptVars>>

\* gapi.client.init resolved: gapiInited = true; if (gisInited) resolve()
GapiInitDone ==
    /\ script1 = "initing"
    /\ script1' = "done"
    /\ gapiInited' = TRUE
    /\ IF gisInited THEN Settle("resolved") ELSE UNCHANGED promiseState
    /\ obs' = Obs("script")
    /\ UNCHANGED <<scriptsPromise, gisInited, tokenClient,
                   script2, tags1, tags2, handed, nonScriptVars>>

\* gapi.client.init rejected: reject(err)
GapiInitFailed ==
    /\ script1 = "initing"
    /\ script1' = "initfail"
    /\ Settle("rejected")
    /\ obs' = Obs("script")
    /\ UNCHANGED <<scriptsPromise, gapiInited, gisInited, tokenClient,
                   script2, tags1, tags2, handed, nonScriptVars>>

\* script1.onerror
Script1OnError ==
    /\ script1 = "loading"
    /\ script1' = "error"
    /\ Settle("rejected")
    /\ obs' = Obs("script")
    /\ UNCHANGED <<scriptsPromise, gapiInited, gisInited, tokenClient,
                   script2, tags1, tags2, handed, nonScriptVars>>

\* script2.onload: initTokenClient; gisInited = true; if (gapiInited) resolve()
Script2OnLoad ==
    /\ script2 = "loading"
    /\ script2' = "done"
    /\ tokenClient' = TRUE
    /\ gisInited' = TRUE
    /\ IF gapiInited THEN Settle("resolved") ELSE UNCHANGED promiseState
    /\ obs' = Obs("script")
    /\ UNCHANGED <<scriptsPromise, gapiInited,
                   script1, tags1, tags2, handed, nonScriptVars>>

\* script2.onload where initTokenClient throws: reject(err)
Script2OnLoadThrows ==
    /\ script2 = "loading"
    /\ script2' = "threw"
    /\ Settle("rejected")
    /\ obs' = Obs("script")
    /\ UNCHANGED <<scriptsPromise, gapiInited, gisInited, tokenClient,
                   script1, tags1, tags2, handed, nonScriptVars>>

\* script2.onerror
Script2OnError ==
    /\ script2 = "loading"
    /\ script2' = "error"
    /\ Settle("rejected")
    /\ obs' = Obs("script")
    /\ UNCHANGED <<scriptsPromise, gapiInited, gisInited, tokenClient,
                   script1, tags1, tags2, handed, nonScriptVars>>

ScriptEvent ==
    \/ Script1OnLoad \/ GapiInitDone \/ GapiInitFailed \/ Script1OnError
    \/ Script2OnLoad \/ Script2OnLoadThrows \/ Script2OnError

(***************************************************************************)
(* The token.                                                              *)
(***************************************************************************)
\* hasValidToken (no caller in the module)
hasValidToken == accessToken # None /\ tokenExpiry # None /\ tokenExpiry[1] > now

\* the expiry the adapter holds for its token has passed
TokenExpired == tokenExpiry = None \/ ~(now < tokenExpiry[1])

saveToken(token) ==
    /\ accessToken' = Some(token)
    /\ tokenExpiry' = Some(now + TokenLifeTicks)
    /\ lsToken' = Some(token)
    /\ lsExpiry' = Some(NumToStr(now + TokenLifeTicks))

clearToken ==
    /\ accessToken' = None
    /\ tokenExpiry' = None
    /\ lsToken' = None
    /\ lsExpiry' = None


(***************************************************************************)
(* The asynchronous call in progress on the adapter: initialize, connect   *)
(* or restoreSession, and where it waits.                                  *)
(*   seen      how restoreSession found the stored token: "none", or its   *)
(*             expiry against now: "past", "now", "future"                 *)
(*   lookups   calls of findOrCreateConfigFile it made                     *)
(*   found     what the list request answered: "yes", "no" (no file)       *)
(*   creates   create requests it sent;  created: files they created       *)
(*   out       the create request's outcome: "ok", "http", "net"           *)
(*   threw     findOrCreateConfigFile threw                                *)
(***************************************************************************)
Idle == [op |-> "none", pc |-> "idle", res |-> "none", by |-> "",
         seen |-> "", lookups |-> 0, found |-> "", creates |-> 0, created |-> 0,
         out |-> "", threw |-> FALSE, earlier |-> "none", extra |-> 0]
Call(op, who) == [Idle EXCEPT !.op = op, !.pc = "awaitScripts", !.by = who]
Return(r) == [sess EXCEPT !.pc = "done", !.res = r]

\* A request to the remote file API, as the network sees it.
Request(kind, by) == [Obs("request") EXCEPT !.req = kind, !.by = by, !.expired = TokenExpired]

sessFrame == <<itemVars, lsType, lsData, now, remote, todoistVars, apartVars>>

\* initialize(), connect() and restoreSession() all start with loadGoogleScripts()
Invoked(op, who) ==
    /\ LoadGoogleScripts
    /\ sess' = Call(op, who)

Invoke(op, who) ==
    /\ Invoked(op, who)
    /\ obs' = ScriptsCall

StartCall(op, who) ==
    /\ sess = Idle
    /\ Invoke(op, who)
    /\ UNCHANGED <<tokenVars, configFileId, sessFrame>>

\* findOrCreateConfigFile: gapi.client.drive.files.list(...) is sent
ListRequest == [Obs("request") EXCEPT !.req = "list", !.by = "session",
                                     !.expired = tokenExpiry' = None \/ ~(now < tokenExpiry'[1])]
SendList ==
    /\ sess' = [sess EXCEPT !.pc = "awaitList", !.lookups = @ + 1]
    /\ obs' = ListRequest

\* await loadGoogleScripts() has settled in initialize()
InitializeSettled ==
    /\ sess.op = "initialize" /\ sess.pc = "awaitScripts"
    /\ promiseState # "pending"
    /\ sess' = Return(IF promiseState = "resolved" THEN "ok" ELSE "throw")
    /\ obs' = Obs("step")
    /\ UNCHANGED <<scriptVars, tokenVars, configFileId, sessFrame>>

\* the stored expiry not compared with the clock
StoredTokenValid_NoExpiryCheck == lsToken # None /\ lsExpiry # None

\* restoreSession after await this.initialize(): the stored token is read and judged
StoredTokenValid == lsToken # None /\ lsExpiry # None /\ StrToNum(lsExpiry[1]) > now

StoredTokenSeen ==
    IF lsToken = None \/ lsExpiry = None THEN "none"
    ELSE IF StrToNum(lsExpiry[1]) < now THEN "past"
    ELSE IF StrToNum(lsExpiry[1]) = now THEN "now" ELSE "future"

RestoreSettled ==
    /\ sess.op = "restore" /\ sess.pc = "awaitScripts"
    /\ promiseState # "pending"
    /\ IF promiseState = "rejected"
       THEN /\ sess' = Return("false")
            /\ obs' = Obs("alert")
            /\ UNCHANGED tokenVars
       ELSE IF StoredTokenValid
            THEN /\ accessToken' = lsToken
                 /\ tokenExpiry' = Some(StrToNum(lsExpiry[1]))
                 /\ UNCHANGED <<lsToken, lsExpiry>>
                 /\ sess' = [sess EXCEPT !.pc = "awaitList", !.lookups = @ + 1,
                                         !.seen = StoredTokenSeen]
                 /\ obs' = ListRequest
            ELSE /\ sess' = [Return("false") EXCEPT !.seen = StoredTokenSeen]
                 /\ obs' = Obs(IF lsToken # None THEN "alert" ELSE "step")
                 /\ UNCHANGED tokenVars
    /\ UNCHANGED <<scriptVars, configFileId, sessFrame>>

\* connect after await this.initialize(): the init flags, then authenticate()
ConnectSettled ==
    /\ sess.op = "connect" /\ sess.pc = "awaitScripts"
    /\ promiseState # "pending"
    /\ IF promiseState = "rejected" \/ ~gisInited \/ ~gapiInited \/ ~tokenClient
       THEN sess' = Return("throw")
       ELSE sess' = [sess EXCEPT !.pc = "awaitAuth"]
    /\ obs' = Obs("step")
    /\ UNCHANGED <<scriptVars, tokenVars, configFileId, sessFrame>>

\* tokenClient.callback(resp): the user has answered the consent popup
AuthCallback(ok) ==
    /\ sess.pc = "awaitAuth"
    /\ IF ok
       THEN /\ saveToken("tok")
            /\ SendList
       ELSE /\ sess' = Return("throw")
            /\ obs' = Obs("step")
            /\ UNCHANGED tokenVars
    /\ UNCHANGED <<scriptVars, configFileId, sessFrame>>

\* findOrCreateConfigFile threw: connect rejects; restoreSession catches, clears
\* the token and returns false
LookupThrew(out) ==
    IF sess.op = "restore"
    THEN /\ clearToken
         /\ sess' = [sess EXCEPT !.pc = "done", !.res = "false", !.threw = TRUE,
                                 !.out = out]
    ELSE /\ UNCHANGED tokenVars
         /\ sess' = [sess EXCEPT !.pc = "done", !.res = "throw", !.threw = TRUE,
                                 !.out = out]

\* the list request's answer
ListResponse(ok) ==
    /\ sess.pc = "awaitList"
    /\ IF ~ok
       THEN /\ LookupThrew("")
            /\ obs' = Obs("step")
            /\ UNCHANGED configFileId
       ELSE IF remote.exists
            THEN \* files[0].id; loadAllData sends files.get
                 /\ configFileId' = "file"
                 /\ sess' = [sess EXCEPT !.pc = "awaitGet", !.found = "yes"]
                 /\ obs' = Request("get", "session")
                 /\ UNCHANGED tokenVars
            ELSE \* createConfigFile sends the multipart POST
                 /\ sess' = [sess EXCEPT !.pc = "awaitCreate", !.found = "no",
                                         !.creates = @ + 1]
                 /\ obs' = Request("create", "session")
                 /\ UNCHANGED <<tokenVars, configFileId>>
    /\ UNCHANGED <<scriptVars, sessFrame>>

\* loadAllData: this.cache = response.result || {}, or {} when the request failed
LoadedCache(ok) == IF ok /\ remote.exists THEN remote.doc ELSE EmptyDoc

NoSets == [k \in Keys |-> Absent]

\* the files.get answer inside findOrCreateConfigFile
GetResponse(ok) ==
    /\ sess.pc = "awaitGet"
    /\ cache' = LoadedCache(ok)
    /\ lastSet' = NoSets
    /\ removed' = {}
    /\ sess' = Return("true")
    /\ obs' = Obs("step")
    /\ UNCHANGED <<scriptVars, tokenVars, configFileId, saveTimeout, timers, flights,
                   hydrating, burst, lsType, lsData, now, remote, todoistVars, apartVars>>

\* the create request's answer: "ok" (the file exists, data.id is its id),
\* "http" (an error body, data.id is undefined), "net" (fetch rejected)
\* a catch that only logs
CreateThrows_Swallowed(out) == FALSE

\* createConfigFile's catch rethrows what fetch rejected with; an error answer
\* is parsed like any other (res.json()), and data.id is then undefined
CreateThrows(out) == out = "net"
CreatedFileId(out) == IF out = "ok" THEN "file" ELSE "undefined"

CreateResponse(out) ==
    /\ sess.pc = "awaitCreate"
    /\ IF CreateThrows(out)
       THEN /\ LookupThrew(out)
            /\ UNCHANGED <<configFileId, cache, lastSet, removed, remote>>
       ELSE /\ configFileId' = CreatedFileId(out)
            /\ cache' = EmptyDoc
            /\ lastSet' = NoSets
            /\ removed' = {}
            /\ remote' = IF out = "ok" THEN [exists |-> TRUE, doc |-> EmptyDoc] ELSE remote
            /\ sess' = [sess EXCEPT !.pc = "done", !.res = "true", !.out = out,
                                    !.created = IF out = "ok" THEN @ + 1 ELSE @]
            /\ UNCHANGED tokenVars
    /\ obs' = Obs("step")
    /\ UNCHANGED <<scriptVars, saveTimeout, timers, flights, hydrating, burst,
                   lsType, lsData, now, todoistVars, apartVars>>


(***************************************************************************)
(* The storage interface of the adapter: getItem, setItem, removeItem,     *)
(* and saveAllData, the flush.                                             *)
(***************************************************************************)
\* if (!configFileId): null and undefined are both falsy
HasFileId == configFileId = "file"

\* return this.cache[key] || null
GetItemResult(c, k) == OrElse(c[k], JNull)

GetReturn(k, v) == [Obs("getItem") EXCEPT !.key = k, !.val = v, !.want = lastSet[k]]

\* if (!accessToken && !configFileId) return null
GetItemReturnsNull == accessToken = None /\ ~HasFileId

\* if (configFileId && Object.keys(this.cache).length === 0) await this.loadAllData()
GetItemHydrates == HasFileId /\ IsEmptyDoc(cache)

\* getItem(key) up to its return or its await of loadAllData
DriveGetItem(k) ==
    IF GetItemReturnsNull
    THEN /\ obs' = GetReturn(k, JNull)
         /\ UNCHANGED hydrating
    ELSE IF GetItemHydrates
         THEN /\ k \notin hydrating
              /\ hydrating' = hydrating \cup {k}
              /\ obs' = [Request("get", "getItem") EXCEPT !.key = k]
         ELSE /\ obs' = GetReturn(k, GetItemResult(cache, k))
              /\ UNCHANGED hydrating

\* loadAllData without its try/catch
LoadAllDataCatches_Rethrows == FALSE

\* loadAllData: try { ... } catch (err) { console.error(...); this.cache = {} }
LoadAllDataCatches == TRUE

\* saveAllData: try { fetch ... if (!response.ok) ... } catch (err) { console.error(...) }
SaveAllDataCatches == TRUE

\* the files.get answer of a getItem's loadAllData, and that getItem's return
\* (or its rejection, were the failure of the request not caught)
HydrateResponse(k, ok) ==
    /\ k \in hydrating
    /\ hydrating' = hydrating \ {k}
    /\ IF ~ok /\ ~LoadAllDataCatches
       THEN /\ UNCHANGED <<cache, lastSet, removed>>
            /\ obs' = [Obs("getItem") EXCEPT !.key = k, !.failed = TRUE, !.raised = TRUE]
       ELSE /\ cache' = LoadedCache(ok)
            /\ lastSet' = NoSets
            /\ UNCHANGED removed
            /\ obs' = [Obs("getItem") EXCEPT !.key = k, !.val = GetItemResult(cache', k),
                                             !.failed = ~ok]

\* the earlier timer left running
ClearedTimers_NotCleared == timers

\* if (this.saveTimeout) clearTimeout(this.saveTimeout)
ClearedTimers == IF saveTimeout # 0 THEN timers \ {saveTimeout} ELSE timers

\* the handle setTimeout returns: one no pending timer has
NewTimer == CHOOSE i \in 1..(Cardinality(timers) + 2) : i \notin timers \cup {saveTimeout}

BurstAfter(k, v) ==
    IF burst[k] = "no" THEN "set"
    ELSE IF lastSet[k] \notin {v, Absent} THEN "reset" ELSE burst[k]

\* setItem(key, value) for every key of W, one call after the other in one task:
\* each call clears the timer of the call before it
DriveSetItems(W) ==
    IF DOMAIN W = {}
    THEN UNCHANGED <<cache, timers, saveTimeout, lastSet, removed, burst>>
    ELSE /\ cache' = [k \in Keys |-> IF k \in DOMAIN W THEN W[k] ELSE cache[k]]
         /\ timers' = ClearedTimers \cup {NewTimer}
         /\ saveTimeout' = NewTimer
         /\ lastSet' = [k \in Keys |-> IF k \in DOMAIN W THEN W[k] ELSE lastSet[k]]
         /\ removed' = {r \in removed : r.key \notin DOMAIN W}
         /\ burst' = [k \in Keys |-> IF k \in DOMAIN W THEN BurstAfter(k, W[k]) ELSE burst[k]]

\* setItem(key, value)
DriveSetItem(k, v) == DriveSetItems([x \in {k} |-> v])

\* only the keys set since the document was loaded
FlushBody_SetKeysOnly(c) == [k \in Keys |-> IF lastSet[k] # Absent THEN c[k] ELSE Absent]

\* the document a flush sends: JSON.stringify(this.cache)
FlushBody(c) == c

\* saveAllData, up to its fetch: nothing is sent without a file id
saveAllData(c, by) ==
    IF HasFileId
    THEN /\ Len(flights) < MaxInFlight
         /\ flights' = Append(flights, FlushBody(c))
         /\ obs' = [Request("update", by) EXCEPT !.body = FlushBody(c), !.burst = burst]
    ELSE /\ UNCHANGED flights
         /\ obs' = [Obs("noFlush") EXCEPT !.by = by, !.burst = burst]

\* the debounce timer fires
TimerFires(id) ==
    /\ id \in timers
    /\ timers' = timers \ {id}
    /\ burst' = [k \in Keys |-> "no"]
    /\ saveAllData(cache, "timer")

\* removeItem(key): delete, then await saveAllData() at once; without a file
\* id saveAllData returns, and so does removeItem
DriveRemoveItem(k) ==
    /\ cache' = [cache EXCEPT ![k] = Absent]
    /\ lastSet' = [lastSet EXCEPT ![k] = Absent]
    /\ removed' = {r \in removed : r.key # k} \cup
                  IF hydrating = {} /\ flights = <<>>
                  THEN {[key |-> k, done |-> ~HasFileId]}
                  ELSE {}
    /\ saveAllData(cache', "remove")

RemoveAt(q, i) == SubSeq(q, 1, i - 1) \o SubSeq(q, i + 1, Len(q))

\* the PATCH answer: the file holds the body when the request succeeded
FlushResponse(i, ok) ==
    /\ i \in 1..Len(flights)
    /\ remote' = IF ok /\ remote.exists THEN [remote EXCEPT !.doc = flights[i]] ELSE remote
    /\ flights' = RemoveAt(flights, i)
    \* a removeItem that waits does so for the oldest request: it returns now
    /\ removed' = IF i = 1
                  THEN {r \in removed : r.done} \cup
                       {[r EXCEPT !.done = TRUE] :
                           r \in {q \in removed : ~q.done /\ q.key \notin hydrating}}
                  ELSE removed
    /\ obs' = [Obs("flushed") EXCEPT !.failed = ~ok, !.raised = ~ok /\ ~SaveAllDataCatches]


(***************************************************************************)
(* The adapter under the storage facade's callers.  The facade hands the   *)
(* adapter to its callers once connect() or restoreSession() has returned  *)
(* true (App init and handleDriveConnect, SettingsPanel's Connect Drive),  *)
(* and the page offers connecting only while the adapter is not active.    *)
(***************************************************************************)
sessionVars == <<scriptVars, tokenVars, configFileId, sess>>
shellRest == <<isLoading, needsDriveAuth, state, boot, load>>

\* loadGoogleScripts().catch(console.error): a caller that does not wait
ClientPreload ==
    /\ LoadGoogleScripts
    /\ obs' = ScriptsCall
    /\ UNCHANGED <<nonScriptVars, shellVars>>

ClientCall(op) ==
    /\ adapter # "gdrive"
    /\ StartCall(op, "client")
    /\ UNCHANGED shellVars

\* the caller's await of initialize/connect/restoreSession resumes:
\* if (restored) / if (connected) storage.setAdapter(googleDriveAdapter)
ClientCollect ==
    /\ sess.pc = "done" /\ sess.by = "client"
    /\ sess' = Idle
    /\ adapter' = IF sess.res = "true" THEN "gdrive" ELSE adapter
    /\ obs' = Obs("step")
    /\ UNCHANGED <<scriptVars, tokenVars, configFileId, sessFrame, shellRest>>

ClientGetItem(k) ==
    /\ adapter = "gdrive"
    /\ DriveGetItem(k)
    /\ UNCHANGED <<cache, saveTimeout, timers, flights, lastSet, removed, burst, sessionVars,
                   lsType, lsData, now, remote, todoistVars, apartVars, shellVars>>

ClientHydrated(k, ok) ==
    /\ HydrateResponse(k, ok)
    /\ UNCHANGED <<saveTimeout, timers, flights, burst, sessionVars,
                   lsType, lsData, now, remote, todoistVars, apartVars, shellVars>>

ClientSetItem(k, v) ==
    /\ adapter = "gdrive"
    /\ DriveSetItem(k, v)
    /\ obs' = [Obs("setItem") EXCEPT !.key = k]
    /\ UNCHANGED <<flights, hydrating, sessionVars,
                   lsType, lsData, now, remote, todoistVars, apartVars, shellVars>>

ClientRemoveItem(k) ==
    /\ adapter = "gdrive"
    /\ DriveRemoveItem(k)
    /\ UNCHANGED <<saveTimeout, timers, hydrating, burst, sessionVars,
                   lsType, lsData, now, remote, todoistVars, apartVars, shellVars>>

DebounceTimer(id) ==
    /\ TimerFires(id)
    /\ UNCHANGED <<cache, saveTimeout, hydrating, lastSet, removed, sessionVars,
                   lsType, lsData, now, remote, todoistVars, apartVars, shellVars>>

FlushAnswered(i, ok) ==
    /\ FlushResponse(i, ok)
    /\ UNCHANGED <<cache, saveTimeout, timers, hydrating, lastSet, burst, sessionVars,
                   lsType, lsData, now, todoistVars, apartVars, shellVars>>

\* Date.now() moves on
Tick ==
    /\ now < MaxNow
    /\ now' = now + 1
    /\ obs' = Obs("tick")
    /\ UNCHANGED <<scriptVars, tokenVars, itemVars, configFileId, lsType, lsData,
                   remote, sess, todoistVars, apartVars, shellVars>>

\* The session's steps that the network, the user or the script loader drive.
SessionStep ==
    \/ InitializeSettled
    \/ RestoreSettled
    \/ ConnectSettled
    \/ \E ok \in BOOLEAN : AuthCallback(ok)
    \/ \E ok \in BOOLEAN : ListResponse(ok)
    \/ \E ok \in BOOLEAN : GetResponse(ok)
    \/ \E out \in {"ok", "http", "net"} : CreateResponse(out)

\* A page as the browser hands it to the scripts: nothing loaded, nothing cached.
FreshPage ==
    /\ scriptsPromise = 0 /\ promiseState = "pending"
    /\ gapiInited = FALSE /\ gisInited = FALSE /\ tokenClient = FALSE
    /\ accessToken = None /\ tokenExpiry = None /\ configFileId = "null"
    /\ cache = EmptyDoc /\ saveTimeout = 0
    /\ script1 = "none" /\ script2 = "none" /\ tags1 = 0 /\ tags2 = 0 /\ handed = {}
    /\ timers = {} /\ flights = <<>> /\ hydrating = {}
    /\ sess = Idle /\ obs = NoObs /\ lastSet = NoSets /\ removed = {}
    /\ burst = [k \in Keys |-> "no"]

\* What earlier sessions may have left in localStorage and on Drive: no token,
\* or a token whose expiry is now - 1, now, or later than now.
StoredToken(e) == <<Some("tok"), Some(NumToStr(e))>>
NoStoredToken == <<None, None>>
StoredTokens == {NoStoredToken} \cup {StoredToken(e) : e \in {0, 1, 2}}
RemoteFiles == {[exists |-> FALSE, doc |-> EmptyDoc]} \cup
               {[exists |-> TRUE, doc |-> d] : d \in
                   {EmptyDoc, [EmptyDoc EXCEPT !["focusnook-settings"] = JObjA]}}

\* a space: its id, the revision of its other fields, isCustom
Space(i, r, c) == [id |-> i, rev |-> r, isCustom |-> c]

\* import { defaultSpaces } from './data/spaces'
defaultSpaces == <<Space(1, 0, FALSE), Space(2, 0, FALSE)>>

\* the widgets App renders in a DraggableWidget
Widgets == {"pomodoro", "sounds", "todos", "notes", "planner", "music", "focusprep"}

NoProxy == [variant |-> "", token |-> None, method |-> "",
            up |-> [kind |-> "none", status |-> 0, json |-> FALSE],
            sent |-> FALSE, status |-> 0]

\* useState([]), useState(defaultSpaces[0])
SpacesOff == customSpaces = <<>> /\ currentSpace = defaultSpaces[1]

\* plannerStartHour: 9, plannerEndHour: 17
PlannerOff == plannerStartHour = 9 /\ plannerEndHour = 17

\* useState({}), useRef(10)
FrontOff == widgetZIndices = [w \in Widgets |-> 0] /\ zIndexCounter = 10

ProxyOff == proxy = NoProxy

NoTodoist ==
    /\ upstream = <<>>
    /\ tasksOut = [impl |-> "", flat |-> [threw |-> "", tasks |-> <<>>],
                   env |-> [threw |-> "", tasks |-> <<>>]]

ShellOff ==
    /\ adapter = "local" /\ isLoading = TRUE /\ needsDriveAuth = FALSE
    /\ state = Defaults /\ boot = "off" /\ load = NoLoad

\* the adapter before its first call, the shell not mounted
InitAdapter(tokens) ==
    /\ FreshPage
    /\ now = 1
    /\ \E t \in tokens : lsToken = t[1] /\ lsExpiry = t[2]
    /\ lsType = None /\ lsData = EmptyStore
    /\ remote \in RemoteFiles
    /\ NoTodoist
    /\ ShellOff

InitDrive(tokens) ==
    /\ InitAdapter(tokens)
    /\ SpacesOff /\ PlannerOff /\ FrontOff /\ ProxyOff

DriveNext(K, V) ==
    \/ \E op \in {"initialize", "connect", "restore"} : ClientCall(op)
    \/ ClientCollect
    \/ (ScriptEvent /\ UNCHANGED shellVars)
    \/ (SessionStep /\ UNCHANGED shellVars)
    \/ \E k \in K : ClientGetItem(k)
    \/ \E k \in K, ok \in BOOLEAN : ClientHydrated(k, ok)
    \/ \E k \in K, v \in V : ClientSetItem(k, v)
    \/ \E k \in K : ClientRemoveItem(k)
    \/ \E id \in timers : DebounceTimer(id)
    \/ \E i \in 1..Len(flights), ok \in BOOLEAN : FlushAnswered(i, ok)

\* The storage interface under every value, the clock standing still (no item
\* operation reads it).
NextDrive == DriveNext(ClientKeys, Values)
SpecDrive == InitDrive({NoStoredToken, StoredToken(1 + TokenLifeTicks)}) /\ [][NextDrive]_vars

\* The storage interface under a client of one key, the file holding another.
DocKeys == {"focusnook-widget-visibility"}
NextDoc == DriveNext(DocKeys, {JObjA})
SpecDoc == InitDrive({NoStoredToken, StoredToken(1 + TokenLifeTicks)}) /\ [][NextDoc]_vars

\* One adapter instance whose client only writes and whose flushes all
\* succeed, in whatever order the server answers them.
NextFlush ==
    \/ ClientCall("connect")
    \/ ClientCollect
    \/ (ScriptEvent /\ UNCHANGED shellVars)
    \/ (SessionStep /\ UNCHANGED shellVars)
    \/ \E k \in ClientKeys : ClientSetItem(k, JObjA)
    \/ \E k \in ClientKeys : ClientRemoveItem(k)
    \/ \E id \in timers : DebounceTimer(id)
    \/ \E i \in 1..Len(flights) : FlushAnswered(i, TRUE)

SpecFlush == InitDrive({NoStoredToken}) /\ [][NextFlush]_vars

\* The session and its token as time passes, the client writing one value.
NextSession == DriveNext(ClientKeys, {JObjA}) \/ ClientPreload \/ Tick
SpecSession == InitDrive(StoredTokens) /\ [][NextSession]_vars


(***************************************************************************)
(* services/storage: the facade and the local adapter.                     *)
(***************************************************************************)
\* JSON.stringify on the way into localStorage, JSON.parse on the way out
JSONStringify(v) == [json |-> v]
JSONParse(str) == str.json

\* LocalStorageAdapter.getItem: null on a missing key
LocalGetItem(k) == IF lsData[k] = None THEN JNull ELSE JSONParse(lsData[k][1])

\* LocalStorageAdapter.setItem for every key of W
LocalSetItems(W) ==
    lsData' = [k \in Keys |-> IF k \in DOMAIN W THEN Some(JSONStringify(W[k])) ELSE lsData[k]]

\* storage.get(key) on adapter a, when the adapter answers without a request
StorageGet(a, k) ==
    IF a = "local" THEN LocalGetItem(k)
    ELSE IF GetItemReturnsNull THEN JNull ELSE GetItemResult(cache, k)

\* storage.set(key, value) on adapter a for every key of W
StorageSet(a, W) ==
    IF a = "local"
    THEN /\ LocalSetItems(W)
         /\ UNCHANGED <<cache, timers, saveTimeout, lastSet, removed, burst>>
    ELSE /\ DriveSetItems(W)
         /\ UNCHANGED lsData

(***************************************************************************)
(* App: the write-through effects and loadData.                            *)
(***************************************************************************)
EffectWrites_Always(loading) == TRUE
\* if (!isLoading) storage.set(...)
EffectWrites(loading) == ~loading

\* The effects of the items in `set` (their setter was called) run after the
\* render, and every effect runs when isLoading differs from the last render.
Fired(set, wasLoading, loading) ==
    {i \in Items : EffectWrites(loading) /\ (i \in set \/ wasLoading # loading)}

\* what the effects of the items in `fired` write, the state being st
Writes(st, fired) ==
    [k \in {WriteKey(i) : i \in fired} |-> st[CHOOSE i \in fired : WriteKey(i) = k]]

\* loadData without its finally block
LoadingAfterLoad_NoFinally == isLoading

\* finally { setIsLoading(false) }
LoadingAfterLoad == FALSE

\* loadData from the answers of its reads on: if (saved) setX(saved), and
\* finally setIsLoading(false); then the effects
LoadFinished(a, got, wasLoading, who) ==
    LET set == {i \in Items : Truthy(got[ReadKey(i)])}
        st == [i \in Items |-> IF i \in set THEN got[ReadKey(i)] ELSE state[i]]
        fired == Fired(set, wasLoading, FALSE)
    IN /\ state' = st
       /\ isLoading' = LoadingAfterLoad
       /\ load' = NoLoad
       /\ StorageSet(a, Writes(st, fired))
       /\ obs' = [Obs("loaded") EXCEPT !.by = who, !.got = [k \in Keys |-> IF k \in ReadKeys THEN got[k] ELSE Absent],
                                       !.wrote = {WriteKey(i) : i \in fired},
                                       !.alerted = (who = "catch")]

\* loadData() on adapter a.  The Drive adapter with a file id and an empty cache
\* sends one files.get per read; any other read is answered within the task,
\* and then `rendered` tells whether React rendered isLoading = true in between.
LoadData(a, rendered, who) ==
    /\ LoadGoogleScripts
    /\ IF a = "gdrive" /\ GetItemHydrates
       THEN /\ isLoading' = TRUE
            /\ hydrating' = ReadKeys
            /\ load' = [NoLoad EXCEPT !.active = TRUE, !.by = who]
            /\ obs' = Request("get", "getItem")
            /\ UNCHANGED <<state, lsData, cache, timers, saveTimeout, lastSet, removed, burst>>
       ELSE /\ LoadFinished(a, [k \in ReadKeys |-> StorageGet(a, k)], isLoading \/ rendered, who)
            /\ UNCHANGED hydrating
    /\ UNCHANGED flights

loadRest == <<tokenVars, configFileId, now, remote, todoistVars, apartVars>>

\* every read of the Promise.all has its answer
LoadReady == load.active /\ \A k \in ReadKeys : load.got[k] # Absent

\* a continuation is due before the next event
Pending == sess.pc = "done" \/ LoadReady

\* the files.get answer of one of loadData's reads
ShellHydrated(k, ok) ==
    /\ load.active
    /\ HydrateResponse(k, ok)
    /\ load' = [load EXCEPT !.got[k] = GetItemResult(cache', k)]
    /\ UNCHANGED <<saveTimeout, timers, flights, burst, sessionVars, lsType, lsData, now,
                   remote, todoistVars, apartVars, adapter, isLoading, needsDriveAuth, state, boot>>

\* loadData resumes after its Promise.all
LoadResumes ==
    /\ LoadReady
    /\ LoadFinished(adapter, load.got, TRUE, load.by)
    /\ UNCHANGED <<flights, hydrating, sessionVars, lsType, now, remote, todoistVars, apartVars,
                   adapter, needsDriveAuth, boot>>

(***************************************************************************)
(* App: the init effect.                                                   *)
(***************************************************************************)
\* the init effect without its recovery rule
RecoveredType_NoRecovery == lsType

\* RECOVERY: no type set, but a valid token
RecoveredType == IF lsType = None /\ StoredTokenValid THEN Some("gdrive") ELSE lsType

BootInit ==
    /\ boot = "mount"
    /\ lsType' = RecoveredType
    /\ IF RecoveredType = Some("gdrive")
       THEN /\ Invoked("initialize", "init")
            /\ obs' = [ScriptsCall EXCEPT !.recovered = lsType = None]
            /\ boot' = "initialize"
            /\ UNCHANGED <<itemVars, lsData, state, isLoading, load>>
       ELSE /\ LoadData(adapter, FALSE, "boot")
            /\ boot' = "done"
            /\ UNCHANGED sess
    /\ UNCHANGED <<loadRest, adapter, needsDriveAuth>>

\* await googleDriveAdapter.initialize() is over: restoreSession, or the catch
InitAfterInitialize ==
    /\ boot = "initialize" /\ sess.pc = "done" /\ sess.by = "init"
    /\ IF sess.res = "throw"
       THEN /\ adapter' = "local"
            /\ LoadData("local", FALSE, "init")
            /\ sess' = Idle
            /\ boot' = "done"
       ELSE /\ Invoke("restore", "init")
            /\ boot' = "restore"
            /\ UNCHANGED <<itemVars, lsData, state, isLoading, load, adapter>>
    /\ UNCHANGED <<loadRest, lsType, needsDriveAuth>>

\* await googleDriveAdapter.restoreSession() is over
InitAfterRestore ==
    /\ boot = "restore" /\ sess.pc = "done" /\ sess.by = "init"
    /\ sess' = Idle
    /\ boot' = "done"
    /\ IF sess.res = "true"
       THEN /\ adapter' = "gdrive"
            /\ LoadData("gdrive", FALSE, "init")
            /\ UNCHANGED needsDriveAuth
       ELSE /\ needsDriveAuth' = TRUE
            /\ isLoading' = FALSE
            /\ StorageSet(adapter, Writes(state, Fired({}, isLoading, FALSE)))
            /\ obs' = [Obs("needsAuth") EXCEPT !.seen = sess.seen,
                                               !.wrote = {WriteKey(i) : i \in Fired({}, isLoading, FALSE)}]
            /\ UNCHANGED <<scriptVars, flights, hydrating, state, load, adapter>>
    /\ UNCHANGED <<loadRest, lsType>>

(***************************************************************************)
(* App: what the user does.                                                *)
(***************************************************************************)
\* the reconnect screen is shown
AuthScreen == needsDriveAuth /\ ~isLoading

\* the widgets and the settings panel are shown
MainScreen == boot = "done" /\ ~isLoading /\ ~needsDriveAuth

\* handleDriveConnect, up to await googleDriveAdapter.connect()
ManualConnect ==
    /\ AuthScreen /\ sess = Idle
    /\ isLoading' = TRUE
    /\ Invoke("connect", "manual")
    /\ UNCHANGED <<loadRest, itemVars, lsType, lsData, adapter, needsDriveAuth, state, boot, load>>

\* the flag with its removal in the catch of handleDriveConnect left out
FlagAfterCatch_Kept == lsType

\* localStorage.removeItem('focusnook-storage-type')
FlagAfterCatch == None

\* handleDriveConnect after the await, or in its catch: alert(...), then the
\* local adapter, no flag, and loadData
ManualConnected ==
    /\ sess.pc = "done" /\ sess.by = "manual"
    /\ sess' = Idle
    /\ needsDriveAuth' = FALSE
    /\ IF sess.res = "true"
       THEN /\ adapter' = "gdrive"
            /\ LoadData("gdrive", FALSE, "manual")
            /\ UNCHANGED lsType
       ELSE /\ adapter' = "local"
            /\ lsType' = FlagAfterCatch
            /\ LoadData("local", FALSE, "catch")
    /\ UNCHANGED <<loadRest, boot>>

\* "Continue with Local Storage"
ContinueLocal ==
    /\ AuthScreen
    /\ adapter' = "local"
    /\ lsType' = None
    /\ needsDriveAuth' = FALSE
    /\ obs' = Obs("continueLocal")
    /\ UNCHANGED <<loadRest, scriptVars, itemVars, lsData, sess, isLoading, state, boot, load>>

\* SettingsPanel, "Connect Drive": shown while storage.getType() !== 'gdrive'
SettingsConnect ==
    /\ MainScreen /\ adapter # "gdrive"
    /\ StartCall("connect", "settings")
    /\ UNCHANGED shellVars

\* "Connect Drive" clicked again while the connect() of the click before waits
\* for the consent popup: the new connect() gets the settled scripts promise
\* and calls authenticate(), which assigns tokenClient.callback and opens
\* another popup.  sess follows the later call from here on; earlier is the
\* promise of the authenticate() before it, extra the popups beyond the one
\* the later call waits for.
SecondConnect ==
    /\ MainScreen /\ adapter # "gdrive"
    /\ sess.pc = "awaitAuth" /\ sess.by = "settings" /\ sess.earlier = "none"
    /\ LoadGoogleScripts
    /\ sess' = [sess EXCEPT !.earlier = "pending", !.extra = @ + 1]
    /\ obs' = ScriptsCall
    /\ UNCHANGED <<tokenVars, configFileId, sessFrame, shellVars>>

\* a popup is answered after tokenClient.callback has settled its promise:
\* the callback runs again, its resolve or reject does nothing, and
\* saveToken stores the token of the answer
ExtraAnswer(ok) ==
    /\ sess.extra > 0 /\ sess.pc # "awaitAuth"
    /\ sess' = [sess EXCEPT !.extra = @ - 1]
    /\ IF ok THEN saveToken("tok") ELSE UNCHANGED tokenVars
    /\ obs' = Obs("step")
    /\ UNCHANGED <<scriptVars, configFileId, sessFrame, shellVars>>

\* "Connect Drive" after its await: onDriveConnected(), or the alert in the catch
SettingsConnected(rendered) ==
    /\ sess.pc = "done" /\ sess.by = "settings"
    /\ sess' = [Idle EXCEPT !.earlier = sess.earlier, !.extra = sess.extra]
    /\ IF sess.res = "true"
       THEN /\ lsType' = Some("gdrive")
            /\ adapter' = "gdrive"
            /\ needsDriveAuth' = FALSE
            /\ LoadData("gdrive", rendered, "settings")
       ELSE /\ obs' = Obs("alert")
            /\ UNCHANGED <<scriptVars, itemVars, lsType, lsData, shellVars>>
    /\ UNCHANGED <<loadRest, boot>>

\* a setter is called with v: the state changes, and after the render the
\* item's effect runs
Change(i, v) ==
    /\ state' = [state EXCEPT ![i] = v]
    /\ StorageSet(adapter, Writes(state', Fired({i}, isLoading, isLoading)))
    /\ obs' = [Obs("change") EXCEPT !.key = i,
                                    !.wrote = {WriteKey(j) : j \in Fired({i}, isLoading, isLoading)}]
    /\ UNCHANGED <<loadRest, scriptVars, flights, hydrating, lsType, sess,
                   adapter, isLoading, needsDriveAuth, boot, load>>

\* updateSettings, addSpace
UserChange(i) ==
    /\ MainScreen
    /\ Change(i, UserValue(i))

\* keydown '1'..'7': toggleWidgetVisibility, whatever the page shows
KeyToggle ==
    /\ boot # "mount"
    /\ Change("widgetVisibility", Toggled(state["widgetVisibility"]))

\* The page is loaded anew: localStorage and the remote file stay, the module
\* state, the timers, the requests in flight and the React state are gone.
Reloaded ==
    /\ scriptsPromise' = 0 /\ promiseState' = "pending"
    /\ gapiInited' = FALSE /\ gisInited' = FALSE /\ tokenClient' = FALSE
    /\ accessToken' = None /\ tokenExpiry' = None /\ configFileId' = "null"
    /\ cache' = EmptyDoc /\ saveTimeout' = 0
    /\ script1' = "none" /\ script2' = "none" /\ tags1' = 0 /\ tags2' = 0 /\ handed' = {}
    /\ timers' = {} /\ flights' = <<>> /\ hydrating' = {}
    /\ sess' = Idle /\ lastSet' = NoSets /\ removed' = {}
    /\ burst' = [k \in Keys |-> "no"]
    /\ adapter' = "local" /\ isLoading' = TRUE /\ needsDriveAuth' = FALSE
    /\ state' = Defaults /\ boot' = "mount" /\ load' = NoLoad
    /\ UNCHANGED <<lsToken, lsExpiry, lsType, lsData, now, remote, todoistVars, apartVars>>

PageReload ==
    /\ boot # "mount"
    /\ Reloaded
    /\ obs' = Obs("reload")

\* SettingsPanel, "Disconnect": storage.setAdapter(new LocalStorageAdapter()),
\* then window.location.reload()
Disconnect ==
    /\ MainScreen /\ adapter = "gdrive"
    /\ Reloaded
    /\ obs' = Obs("disconnect")

\* What earlier sessions may have left in localStorage.
LocalStores == {EmptyStore,
                [EmptyStore EXCEPT !["focusnook-settings"] = Some(JSONStringify(JLocalSettings))]}
StoredTypes == {None, Some("gdrive")}

\* a flag somebody else wrote: anything but 'gdrive' takes the local branch
BootTypes == StoredTypes \cup {Some("local")}

\* the page is mounted over a local storage whose flag is one of `types`
InitShell(types) ==
    /\ FreshPage
    /\ now = 1
    /\ \E t \in StoredTokens : lsToken = t[1] /\ lsExpiry = t[2]
    /\ lsType \in types
    /\ lsData \in LocalStores
    /\ remote \in RemoteFiles
    /\ NoTodoist
    /\ adapter = "local" /\ isLoading = TRUE /\ needsDriveAuth = FALSE
    /\ state = Defaults /\ boot = "mount" /\ load = NoLoad
    /\ SpacesOff /\ PlannerOff /\ FrontOff /\ ProxyOff

InitApp == InitShell(StoredTypes)

\* what resumes within the task that made it due
AppResumes ==
    \/ InitAfterInitialize
    \/ InitAfterRestore
    \/ ManualConnected
    \/ \E rendered \in BOOLEAN : SettingsConnected(rendered)
    \/ LoadResumes

\* what the page, the user, the timers and the network bring
AppEvent ==
    \/ BootInit
    \/ ManualConnect
    \/ ContinueLocal
    \/ SettingsConnect
    \/ \E i \in PanelItems : UserChange(i)
    \/ PageReload
    \/ Disconnect
    \/ \E k \in ReadKeys, ok \in BOOLEAN : ShellHydrated(k, ok)
    \/ (ScriptEvent /\ UNCHANGED shellVars)
    \/ (SessionStep /\ UNCHANGED shellVars)
    \/ \E id \in timers : DebounceTimer(id)
    \/ \E i \in 1..Len(flights), ok \in BOOLEAN : FlushAnswered(i, ok)

NextApp == AppResumes \/ (~Pending /\ AppEvent)

\* The init effect on its own: the page mounts and nobody touches it.
BootResumes == InitAfterInitialize \/ InitAfterRestore \/ LoadResumes

BootEvent ==
    \/ BootInit
    \/ \E k \in ReadKeys, ok \in BOOLEAN : ShellHydrated(k, ok)
    \/ (ScriptEvent /\ UNCHANGED shellVars)
    \/ (SessionStep /\ UNCHANGED shellVars)
    \/ \E id \in timers : DebounceTimer(id)
    \/ \E i \in 1..Len(flights), ok \in BOOLEAN : FlushAnswered(i, ok)

NextBoot == BootResumes \/ (~Pending /\ BootEvent)

\* The effect runs once the page is mounted, a continuation runs once its
\* promise has settled, and every script load and every request the init
\* effect waits for is answered, well or badly.
BootFairness ==
    /\ WF_vars(BootResumes)
    /\ WF_vars(~Pending /\ BootInit)
    /\ WF_vars(~Pending /\ ScriptEvent /\ UNCHANGED shellVars)
    /\ WF_vars(~Pending /\ SessionStep /\ UNCHANGED shellVars)
    /\ WF_vars(~Pending /\ \E k \in ReadKeys, ok \in BOOLEAN : ShellHydrated(k, ok))

SpecBoot == InitShell(BootTypes) /\ [][NextBoot]_vars /\ BootFairness

\* The shell with the keyboard shortcuts, on a page that is not reloaded.
KeysEvent ==
    \/ BootInit
    \/ ManualConnect
    \/ ContinueLocal
    \/ SettingsConnect
    \/ UserChange("settings")
    \/ KeyToggle
    \/ \E k \in ReadKeys, ok \in BOOLEAN : ShellHydrated(k, ok)
    \/ (ScriptEvent /\ UNCHANGED shellVars)
    \/ (SessionStep /\ UNCHANGED shellVars)
    \/ \E id \in timers : DebounceTimer(id)
    \/ \E i \in 1..Len(flights), ok \in BOOLEAN : FlushAnswered(i, ok)

NextKeys == AppResumes \/ (~Pending /\ KeysEvent)

\* The shell over both adapters, the clock standing still.
SpecApp == InitApp /\ [][NextApp]_vars

\* The Settings panel's "Connect Drive" under a user who may click it twice
\* and who answers every consent popup.
AuthEvent ==
    \/ BootInit
    \/ ManualConnect
    \/ ContinueLocal
    \/ SettingsConnect
    \/ SecondConnect
    \/ \E ok \in BOOLEAN : ExtraAnswer(ok)
    \/ (ScriptEvent /\ UNCHANGED shellVars)
    \/ (SessionStep /\ UNCHANGED shellVars)
    \/ \E k \in ReadKeys, ok \in BOOLEAN : ShellHydrated(k, ok)
    \/ \E id \in timers : DebounceTimer(id)
    \/ \E i \in 1..Len(flights), ok \in BOOLEAN : FlushAnswered(i, ok)

NextAuth == AppResumes \/ (~Pending /\ AuthEvent)

PopupAnswered ==
    \/ \E ok \in BOOLEAN : AuthCallback(ok) /\ UNCHANGED shellVars
    \/ \E ok \in BOOLEAN : ExtraAnswer(ok)

InitAuth ==
    /\ InitApp
    /\ lsData = EmptyStore
    /\ lsExpiry \in {None, Some(NumToStr(2))}
    /\ remote.doc = EmptyDoc

SpecAuth == InitAuth /\ [][NextAuth]_vars /\ WF_vars(~Pending /\ PopupAnswered)

\* The same shell with the shortcuts, starting with nothing saved locally
\* and a Drive file.
InitKeys ==
    /\ InitApp
    /\ lsData = EmptyStore
    /\ lsExpiry \in {None, Some(NumToStr(2))}
    /\ remote.exists

SpecKeys == InitKeys /\ [][NextKeys]_vars

(***************************************************************************)
(* Todoist: getTasks, in the two versions of services/todoistApi.  The     *)
(* upstream answers with the tasks as a flat array (REST v2) or inside a   *)
(* paginated envelope {results, next_cursor} (API v1).  A task's optional  *)
(* booleans are "undefined", "true" or "false".                            *)
(***************************************************************************)
Flags == {"undefined", "true", "false"}
UpstreamTasks == [id : {1, 2}, content : {"t"}, checked : Flags, is_completed : Flags,
                  project_id : {"p"}, due : {"undefined"}]
TaskLists == UNION {[1..n -> UpstreamTasks] : n \in 0..MaxTasks}

FlatArray(ts) == [shape |-> "array", items |-> ts]
Envelope(ts) == [shape |-> "object", results |-> ts, next_cursor |-> "null"]
IsArray(data) == data.shape = "array"

\* a ?? b
Coalesce(a, b) == IF a = "undefined" THEN b ELSE a
\* a || false
OrFalse(a) == IF a = "true" THEN "true" ELSE "false"

\* Array.isArray(data) ? data : (data.results ?? [])
TaskItemsV1(data) == IF IsArray(data) THEN data.items ELSE data.results

\* task => ({id, text, completed: task.checked ?? task.is_completed ?? false, ...})
NormalizeV1(t) == [id |-> t.id, text |-> t.content,
                   completed |-> Coalesce(t.checked, Coalesce(t.is_completed, "false")),
                   todoistId |-> t.id, projectId |-> t.project_id, due |-> t.due]

\* task => ({id, text, completed: task.is_completed || false, ...})
NormalizeV2(t) == [id |-> t.id, text |-> t.content,
                   completed |-> OrFalse(t.is_completed),
                   todoistId |-> t.id, projectId |-> t.project_id, due |-> t.due]

Returned(ts) == [threw |-> "", tasks |-> ts]
Thrown(e) == [threw |-> e, tasks |-> <<>>]

\* getTasks of the API v1 service, from the parsed response on
getTasksV1(data) ==
    LET tasks == TaskItemsV1(data)
    IN Returned([i \in 1..Len(tasks) |-> NormalizeV1(tasks[i])])

\* getTasks of the REST v2 service: tasks.map(...) on what request() returned
getTasksV2(data) ==
    IF IsArray(data)
    THEN Returned([i \in 1..Len(data.items) |-> NormalizeV2(data.items[i])])
    ELSE Thrown("TypeError")

getTasks(impl, data) == IF impl = "v1" THEN getTasksV1(data) ELSE getTasksV2(data)

NoTasksOut == [impl |-> "", flat |-> Returned(<<>>), env |-> Returned(<<>>)]

notTodoistVars == <<scriptVars, tokenVars, itemVars, configFileId, lsType, lsData, now,
                    remote, sess, shellVars, apartVars>>

\* the upstream holds some list of tasks
UpstreamHolds(ts) ==
    /\ upstream' = ts
    /\ tasksOut' = NoTasksOut
    /\ obs' = Obs("upstream")
    /\ UNCHANGED notTodoistVars

\* getTasks is called twice on the same tasks, once per shape of the answer
CallGetTasks(impl) ==
    /\ tasksOut' = [impl |-> impl,
                    flat |-> getTasks(impl, FlatArray(upstream)),
                    env |-> getTasks(impl, Envelope(upstream))]
    /\ obs' = Obs("getTasks")
    /\ UNCHANGED <<upstream, notTodoistVars>>

InitTasks ==
    /\ InitDrive({NoStoredToken})
    /\ ~remote.exists

NextTasks ==
    \/ \E ts \in TaskLists : UpstreamHolds(ts)
    \/ \E impl \in {"v1", "v2"} : CallGetTasks(impl)

SpecTasks == InitTasks /\ [][NextTasks]_vars

(***************************************************************************)
(* App: the spaces.                                                        *)
(***************************************************************************)
notApartVars == <<scriptVars, tokenVars, itemVars, configFileId, lsType, lsData, now,
                  remote, sess, todoistVars, shellVars>>
notSpaces == <<notApartVars, plannerStartHour, plannerEndHour, widgetZIndices,
               zIndexCounter, proxy>>

Range(seq) == {seq[i] : i \in DOMAIN seq}

\* const allSpaces = [...defaultSpaces, ...customSpaces]
allSpaces == defaultSpaces \o customSpaces

\* the ids and revisions a custom space may carry
CustomIds == {3, 4}
Revs == {0, 1}

\* what 'focusnook-custom-spaces' and 'focusnook-current-space' may hold in
\* the storage loadData reads: nothing, or a list, and nothing (0), or an id
SavedSpaces == {None, Some(<<>>), Some(<<Space(3, 0, TRUE)>>), Some(<<Space(4, 1, TRUE)>>)}
SavedIds == {0} \cup {defaultSpaces[i].id : i \in DOMAIN defaultSpaces} \cup CustomIds

\* array.find(s => s.id === id): the first element with the id, if any
Find(seq, id) ==
    LET hits == {i \in DOMAIN seq : seq[i].id = id}
    IN IF hits = {} THEN None
       ELSE Some(seq[CHOOSE i \in hits : \A j \in hits : i <= j])

\* prev.map(s => s.id === updatedSpace.id ? updatedSpace : s)
MapUpdated(seq, u) == [i \in DOMAIN seq |-> IF seq[i].id = u.id THEN u ELSE seq[i]]

\* prev.filter(s => s.id !== spaceId)
FilterOut(seq, id) == SelectSeq(seq, LAMBDA sp : sp.id # id)

\* loadData, as far as the spaces go: if (savedCustomSpaces) setCustomSpaces;
\* if (savedSpaceId) { found = loadedAllSpaces.find(...); if (found) setCurrentSpace(found) }
LoadSpaces(saved, savedId) ==
    LET loaded == IF saved # None THEN saved[1] ELSE <<>>
        found == Find(defaultSpaces \o loaded, savedId)
    IN /\ customSpaces' = IF saved # None THEN saved[1] ELSE customSpaces
       /\ currentSpace' = IF savedId # 0 /\ found # None THEN found[1] ELSE currentSpace
       /\ obs' = Obs("loadSpaces")
       /\ UNCHANGED notSpaces

\* onSelectSpace={setCurrentSpace}, on one of spaces={allSpaces}
SelectSpace(sp) ==
    /\ sp \in Range(allSpaces)
    /\ currentSpace' = sp
    /\ obs' = Obs("selectSpace")
    /\ UNCHANGED <<customSpaces, notSpaces>>

addSpace(newSpace) ==
    /\ Len(customSpaces) < MaxSpaces
    /\ customSpaces' = Append(customSpaces, [newSpace EXCEPT !.isCustom = TRUE])
    /\ obs' = Obs("addSpace")
    /\ UNCHANGED <<currentSpace, notSpaces>>

updateSpace(updatedSpace) ==
    /\ customSpaces' = MapUpdated(customSpaces, updatedSpace)
    /\ currentSpace' = IF currentSpace.id = updatedSpace.id THEN updatedSpace ELSE currentSpace
    /\ obs' = Obs("updateSpace")
    /\ UNCHANGED notSpaces

deleteSpace(spaceId) ==
    /\ customSpaces' = FilterOut(customSpaces, spaceId)
    /\ currentSpace' = IF currentSpace.id = spaceId THEN defaultSpaces[1] ELSE currentSpace
    /\ obs' = Obs("deleteSpace")
    /\ UNCHANGED notSpaces

\* The space browser adds spaces under ids of its own, and edits and deletes
\* the custom spaces of the list it is given.
NextSpaces ==
    \/ \E saved \in SavedSpaces, savedId \in SavedIds : LoadSpaces(saved, savedId)
    \/ \E sp \in Range(allSpaces) : SelectSpace(sp)
    \/ \E i \in CustomIds, r \in Revs : addSpace(Space(i, r, FALSE))
    \/ \E sp \in Range(customSpaces), r \in Revs : updateSpace([sp EXCEPT !.rev = r])
    \/ \E sp \in Range(customSpaces) : deleteSpace(sp.id)

InitSpaces ==
    /\ InitAdapter({NoStoredToken}) /\ ~remote.exists
    /\ SpacesOff /\ PlannerOff /\ FrontOff /\ ProxyOff

SpecSpaces == InitSpaces /\ [][NextSpaces]_vars

(***************************************************************************)
(* SettingsPanel: the planner's work day.                                  *)
(***************************************************************************)
notPlanner == <<notApartVars, customSpaces, currentSpace, widgetZIndices,
                zIndexCounter, proxy>>

\* settings.plannerStartHour || 9
StartShown == IF plannerStartHour = 0 THEN 9 ELSE plannerStartHour

\* Array.from({ length: 24 }, (_, i) => i)
StartOptions == {i : i \in 0..(24 - 1)}

\* Array.from({ length: 24 - start }, (_, i) => start + 1 + i).filter(hour => hour <= 24)
EndOptions == {h \in {StartShown + 1 + i : i \in 0..(24 - StartShown - 1)} : h <= 24}

\* the start select without its correction of the end hour
NewEnd_Unadjusted(newStart) == plannerEndHour

\* settings.plannerEndHour <= newStart ? newStart + 1 : settings.plannerEndHour
NewEnd(newStart) == IF plannerEndHour <= newStart THEN newStart + 1 ELSE plannerEndHour

\* "Work Day Start" onChange
SelectStart(newStart) ==
    /\ plannerStartHour' = newStart
    /\ plannerEndHour' = NewEnd(newStart)
    /\ obs' = Obs("startHour")
    /\ UNCHANGED notPlanner

\* "Work Day End" onChange
SelectEnd(newEnd) ==
    /\ plannerEndHour' = newEnd
    /\ obs' = Obs("endHour")
    /\ UNCHANGED <<plannerStartHour, notPlanner>>

NextPlanner ==
    \/ \E h \in StartOptions : SelectStart(h)
    \/ \E h \in EndOptions : SelectEnd(h)

\* settings whose hours are ordered
InitPlanner ==
    /\ InitAdapter({NoStoredToken}) /\ ~remote.exists
    /\ SpacesOff /\ FrontOff /\ ProxyOff
    /\ plannerStartHour \in 0..24 /\ plannerEndHour \in 0..24
    /\ plannerStartHour < plannerEndHour

SpecPlanner == InitPlanner /\ [][NextPlanner]_vars

(***************************************************************************)
(* App: bringing a widget to the front.                                    *)
(***************************************************************************)
notFront == <<notApartVars, customSpaces, currentSpace, plannerStartHour,
              plannerEndHour, proxy>>

\* zIndex={widgetZIndices.pomodoro || 10}: a widget never clicked has no entry
ZIndex(z, w) == IF z[w] = 0 THEN 10 ELSE z[w]

\* the counter left as it is
Raised_Not(c) == c

\* zIndexCounter.current += 1
Raised(c) == c + 1

\* the updater runs with the render that follows the event
bringWidgetToFront(widgetId) ==
    /\ zIndexCounter < 10 + MaxClicks
    /\ zIndexCounter' = Raised(zIndexCounter)
    /\ widgetZIndices' = [widgetZIndices EXCEPT ![widgetId] = zIndexCounter']
    /\ obs' = [Obs("front") EXCEPT !.key = widgetId]
    /\ UNCHANGED notFront

NextFront == \E w \in Widgets : bringWidgetToFront(w)

InitFront ==
    /\ InitAdapter({NoStoredToken}) /\ ~remote.exists
    /\ SpacesOff /\ PlannerOff /\ FrontOff /\ ProxyOff

SpecFront == InitFront /\ [][NextFront]_vars

(***************************************************************************)
(* server/routes/todoist: the proxy.                                       *)
(***************************************************************************)
notProxy == <<notApartVars, deskVars>>

\* the three handlers of the file: Express over rest/v2, Express over api/v1
\* and the Vercel function
Variants == {"express-v2", "express-v1", "vercel"}

\* req.headers['x-todoist-token']: no header, an empty one, a token
Tokens == {None, Some(""), Some("tok")}
Methods == {"GET", "POST", "DELETE"}

\* what fetch does: it rejects, or it resolves with a status and a body that
\* is JSON or is not
Answer(st, js) == [kind |-> "answer", status |-> st, json |-> js]
FetchRejects == [kind |-> "reject", status |-> 0, json |-> FALSE]
Upstreams == {Answer(st, js) : st \in {200, 204, 400, 401, 403, 404, 500}, js \in BOOLEAN}
                 \cup {FetchRejects}

\* if (!token)
MissingToken(token) == token = None \/ token[1] = ""

\* await upstream.json() throws on a body that is not JSON; await
\* upstream.text() takes any body
BodyRead(variant, up) == IF variant = "vercel" THEN TRUE ELSE up.json

\* the status the handler answers once fetch has settled
StatusAfterFetch(variant, up) ==
    IF up.kind = "reject" THEN 502
    ELSE IF up.status = 204 THEN 204
    ELSE IF BodyRead(variant, up) THEN up.status
    ELSE 502

\* proxyTodoist(req, res) / handler(req, res)
proxyTodoist(variant, token, method, up) ==
    /\ proxy' = IF MissingToken(token)
                 THEN [NoProxy EXCEPT !.variant = variant, !.token = token,
                                      !.method = method, !.status = 401]
                 ELSE [variant |-> variant, token |-> token, method |-> method,
                       up |-> up, sent |-> TRUE,
                       status |-> StatusAfterFetch(variant, up)]
    /\ obs' = Obs("proxy")
    /\ UNCHANGED notProxy

NextProxy ==
    \E variant \in Variants, token \in Tokens, method \in Methods, up \in Upstreams :
        proxyTodoist(variant, token, method, up)

InitProxy ==
    /\ InitAdapter({NoStoredToken}) /\ ~remote.exists
    /\ SpacesOff /\ PlannerOff /\ FrontOff /\ ProxyOff

SpecProxy == InitProxy /\ [][NextProxy]_vars

(***************************************************************************)
(*                              PROPERTIES                                 *)
(***************************************************************************)

(***************************************************************************)
(* C1.  Round trip on the Drive adapter: once the pending debounce flush   *)
(* has run, getItem(k) returns the value v of the last setItem(k, v), for  *)
(* every value v, the falsy ones included.  (want is the value of the      *)
(* last setItem(k, .) that no removeItem(k) and no reload of the cache     *)
(* came after.)                                                            *)
(***************************************************************************)
C1_RoundTrip ==
    (obs.ev = "getItem" /\ obs.want # Absent /\ timers = {}) => obs.val = obs.want

C3_NoMigration ==
    /\ \A k \in Keys : remote.doc[k] # JLocalSettings
    /\ \A k \in Keys : lsData[k] # Some(JSONStringify(JObjA))

(***************************************************************************)
(* C4.  Token expiry boundary: restoreSession on a stored token whose      *)
(* expiry is earlier than now makes no call of findOrCreateConfigFile and  *)
(* returns false, and the init effect that awaited it shows the reconnect  *)
(* screen (needsDriveAuth, no longer loading) with the adapter unchanged.  *)
(***************************************************************************)
C4_ExpiredTokenNeedsAuth ==
    /\ [](sess.op = "restore" /\ sess.seen = "past" =>
              sess.pc = "done" /\ sess.res = "false" /\ sess.lookups = 0 /\ ~sess.threw)
    /\ [][(boot = "restore" /\ sess.pc = "done" /\ sess.seen = "past" /\ boot' # "restore") =>
              (needsDriveAuth' /\ ~isLoading' /\ adapter' = "local" /\ obs'.ev = "needsAuth")]_vars

\* the reconnect screen, reached by a restoreSession that found the token expired
C4_Witness ==
    /\ needsDriveAuth /\ ~isLoading /\ boot = "done"
    /\ obs.ev = "needsAuth" /\ obs.seen = "past"
    /\ lsExpiry # None /\ StrToNum(lsExpiry[1]) < now

C6_SameOutputForBothShapes ==
    tasksOut.impl # "" => (tasksOut.env.threw = "" /\ tasksOut.env = tasksOut.flat)

(***************************************************************************)
(* C7.  Fresh browser: with no preference flag, no stored token and an     *)
(* empty local store, the init effect goes straight to loadData on the     *)
(* local adapter (no adapter call, no Drive request, no reconnect screen), *)
(* every read returns null and the state keeps its defaults; a change of   *)
(* the settings under the local adapter is written under                   *)
(* 'focusnook-settings'; and a boot that loads from the local adapter      *)
(* restores the settings stored under that key.                            *)
(***************************************************************************)
FreshBrowser == lsType = None /\ lsToken = None /\ lsExpiry = None /\ lsData = EmptyStore

C7_FreshBrowser ==
    /\ [][(boot = "mount" /\ FreshBrowser /\ boot' # "mount") =>
              /\ boot' = "done" /\ adapter' = "local" /\ ~needsDriveAuth' /\ ~isLoading'
              /\ lsType' = None /\ sess' = Idle /\ flights' = <<>> /\ hydrating' = {}
              /\ obs'.ev = "loaded" /\ \A k \in ReadKeys : obs'.got[k] = JNull
              /\ state' = Defaults]_vars
    /\ [][(adapter = "local" /\ obs'.ev = "change" /\ obs'.key = "settings") =>
              /\ state'["settings"] = JUserSettings
              /\ lsData'["focusnook-settings"] = Some(JSONStringify(JUserSettings))]_vars
    /\ [][(boot = "mount" /\ boot' = "done" /\ lsData["focusnook-settings"] # None) =>
              /\ adapter' = "local"
              /\ state'["settings"] = JSONParse(lsData["focusnook-settings"][1])]_vars

\* a boot on the local adapter has restored the settings the user had changed
C7_Witness ==
    /\ obs.ev = "loaded" /\ obs.by = "boot" /\ adapter = "local" /\ boot = "done"
    /\ lsType = None /\ lsToken = None
    /\ obs.got["focusnook-settings"] = JUserSettings
    /\ state["settings"] = JUserSettings

(***************************************************************************)
(* C8.  No request to the remote file API (list, get, create, update) is   *)
(* sent with a token whose expiry has passed.                              *)
(***************************************************************************)
C8_NoExpiredRequest == obs.ev = "request" => ~obs.expired

(***************************************************************************)
(* C9.  restoreSession failure clears the cached token: when               *)
(* restoreSession has returned false because the stored token had expired  *)
(* or because the file lookup failed, accessToken is null and gdrive_token *)
(* and gdrive_expiry are gone from localStorage.                           *)
(***************************************************************************)
C9_RestoreFailureClears ==
    (/\ sess.op = "restore" /\ sess.pc = "done" /\ sess.res = "false"
     /\ (sess.seen \in {"past", "now"} \/ sess.threw))
        => (accessToken = None /\ lsToken = None /\ lsExpiry = None)

(***************************************************************************)
(* C10.  Script loading happens once: each of the two script tags is       *)
(* appended at most once, and every caller of loadGoogleScripts            *)
(* (initialize, connect, restoreSession, the preload) gets the same        *)
(* promise.                                                                *)
(***************************************************************************)
C10_ScriptsLoadedOnce ==
    /\ tags1 <= 1 /\ tags2 <= 1
    /\ Cardinality(handed) <= 1

\* a second caller arrives while the load is pending and shares it
C10_Witness ==
    /\ obs.ev = "call" /\ obs.by = "reuse"
    /\ promiseState = "pending"
    /\ tags1 = 1 /\ tags2 = 1 /\ handed = {scriptsPromise}

(***************************************************************************)
(* C11.  getItem, setItem and the flush never raise: no step of the        *)
(* storage interface ends in a rejection; a getItem whose read of the file *)
(* failed returns null; and a flush whose request failed changes neither   *)
(* the file nor the cache.                                                 *)
(***************************************************************************)
C11_NeverRaises ==
    /\ [](~obs.raised)
    /\ []((obs.ev = "getItem" /\ obs.failed) => obs.val = JNull)
    /\ [][(obs'.ev = "flushed" /\ obs'.failed) => (remote' = remote /\ cache' = cache)]_vars

\* a getItem returned null for a key the file holds, its read having failed
C11_Witness ==
    /\ obs.ev = "getItem" /\ obs.failed /\ ~obs.raised /\ obs.val = JNull
    /\ remote.exists /\ remote.doc[obs.key] # Absent

(***************************************************************************)
(* C12.  Boot adapter choice precedes data load: until the init effect has *)
(* decided the adapter (boot is done) the facade holds the local adapter   *)
(* and no read has been issued or answered.  The decision: with no flag    *)
(* and a stored token whose expiry is later than now, the flag is set to   *)
(* 'gdrive' and the Drive path is taken (initialize); with the flag        *)
(* 'gdrive' likewise; with no flag and no such token, loadData runs on the *)
(* local adapter and no flag is recorded.                                  *)
(***************************************************************************)
C12_BootChoosesAdapterFirst ==
    /\ [](boot # "done" =>
              /\ adapter = "local" /\ ~load.active /\ hydrating = {}
              /\ obs.ev \notin {"loaded", "getItem"})
    /\ [][(boot = "mount" /\ boot' # "mount") =>
              IF lsType = Some("gdrive")
                 \/ (lsToken # None /\ lsExpiry # None /\ StrToNum(lsExpiry[1]) > now)
              THEN /\ lsType' = Some("gdrive")
                   /\ boot' = "initialize" /\ sess'.op = "initialize"
                   /\ lsData' = lsData
              ELSE /\ lsType' = None
                   /\ boot' = "done" /\ adapter' = "local" /\ sess' = Idle
                   /\ obs'.ev = "loaded"
                   /\ \A k \in ReadKeys : obs'.got[k] = LocalGetItem(k)]_vars

\* the recovery rule has just recorded the flag and taken the Drive path
C12_Witness ==
    /\ obs.ev = "call" /\ obs.recovered
    /\ boot = "initialize" /\ lsType = Some("gdrive") /\ adapter = "local"
    /\ lsExpiry # None /\ StrToNum(lsExpiry[1]) > now


\* C13: a step that leaves isLoading true calls storage.set on neither
\* adapter (localStorage keeps its items, the Drive adapter arms no timer and
\* takes no value), and once the load has completed every change of a
\* persisted item is handed to storage.set under the key its effect writes,
\* with the new value: it is in localStorage, or in the Drive cache with the
\* debounce timer armed.
C13_WriteThroughOnlyAfterLoad ==
    /\ [][isLoading' =>
            /\ lsData' = lsData
            /\ timers' \subseteq timers
            /\ lastSet' \in {lastSet, NoSets}
            /\ obs'.wrote = {}]_vars
    /\ [][\A i \in Items :
            (~isLoading /\ ~isLoading' /\ state'[i] # state[i]) =>
                IF adapter' = "local"
                THEN lsData'[WriteKey(i)] = Some(JSONStringify(state'[i]))
                ELSE /\ cache'[WriteKey(i)] = state'[i]
                     /\ saveTimeout' \in timers' \ ClearedTimers]_vars

\* a shortcut toggled a widget while the Drive reads of loadData were
\* outstanding, and nothing was stored
C13_Witness ==
    /\ obs.ev = "change" /\ obs.key = "widgetVisibility" /\ obs.wrote = {}
    /\ isLoading /\ load.active /\ adapter = "gdrive"
    /\ state["widgetVisibility"] = JToggledVisibility
    /\ cache["focusnook-widget-visibility"] = Absent
    /\ timers = {}

\* C14: when a loadData has completed, every item whose key read returned
\* null holds its default value.
C14_DefaultsForNullKeys ==
    obs.ev = "loaded" =>
        \A i \in Items : obs.got[ReadKey(i)] = JNull => state[i] = Default(i)

\* C15: every request saveAllData sends carries the whole cache as it is when
\* the flush runs (for removeItem: after the delete), every key of it, and
\* a step that sends a flush is taken with a file id known; without a file id
\* nothing is sent.
C15_FlushIsWholeDocument ==
    /\ [][(obs'.ev = "request" /\ obs'.req = "update") =>
            /\ flights' = Append(flights, obs'.body)
            /\ \A k \in Keys : obs'.body[k] = cache'[k]]_vars
    /\ [][Len(flights') > Len(flights) => configFileId = "file" /\ obs'.req = "update"]_vars

\* the timer of a setItem of one key sent a document that also holds the
\* other key, which was loaded from the file and never set
C15_Witness ==
    /\ obs.ev = "request" /\ obs.req = "update" /\ obs.by = "timer"
    /\ obs.body["focusnook-widget-visibility"] = JObjA
    /\ obs.body["focusnook-settings"] = JObjA
    /\ lastSet["focusnook-settings"] = Absent
    /\ flights # <<>> /\ flights[Len(flights)] = obs.body

\* C16: removeItem(k) takes k out of the cache and sends a flush in the same
\* step, with no timer involved and a document without k; and a getItem(k)
\* that comes after it, with no setItem(k) in between, returns null.
C16_RemoveThenGetIsNull ==
    (obs.ev = "getItem" /\ [key |-> obs.key, done |-> TRUE] \in removed) => obs.val = JNull

\* C17: when connect() or restoreSession() has returned true, both libraries
\* are initialized, an access token is held, and configFileId is the id of a
\* file that exists.
C17_ReadyHasFile ==
    (sess.pc = "done" /\ sess.res = "true" /\ sess.op \in {"connect", "restore"}) =>
        /\ gapiInited /\ gisInited
        /\ accessToken # None
        /\ configFileId = "file" /\ remote.exists

\* C18: when the connect() of handleDriveConnect has rejected, the step that
\* resumes the handler shows the alert, makes the local adapter the active
\* one, removes the storage-type flag, clears needsDriveAuth, and loads every
\* key from localStorage, leaving isLoading false.
C18_FailedConnectFallsBack ==
    [][(sess.pc = "done" /\ sess.by = "manual" /\ sess.res = "throw" /\ sess' = Idle) =>
        /\ obs'.alerted
        /\ adapter' = "local"
        /\ lsType' = None
        /\ ~needsDriveAuth'
        /\ obs'.ev = "loaded"
        /\ \A k \in ReadKeys : obs'.got[k] = LocalGetItem(k)
        /\ \A i \in Items : state'[i] = IF Truthy(LocalGetItem(ReadKey(i)))
                                          THEN LocalGetItem(ReadKey(i)) ELSE state[i]
        /\ ~load'.active /\ hydrating' = {}
        /\ ~isLoading']_vars

\* the manual connect was refused: the page is on the local adapter and
\* shows the settings read from localStorage
C18_Witness ==
    /\ obs.ev = "loaded" /\ obs.by = "catch" /\ obs.alerted
    /\ adapter = "local" /\ lsType = None /\ ~needsDriveAuth /\ ~isLoading
    /\ obs.got["focusnook-settings"] # JNull
    /\ state["settings"] = obs.got["focusnook-settings"]
    /\ sess = Idle

\* C19: once the user has answered every consent popup, every authenticate()
\* call that opened one has settled, the earlier of two calls included.
C19_AuthSettles ==
    /\ (sess.pc = "awaitAuth") ~> (sess.pc # "awaitAuth")
    /\ (sess.earlier = "pending") ~> (sess.earlier # "pending")

\* C20: on the local adapter, the boot load gives every item the value the
\* session before saved for it: what localStorage holds under the key the
\* item's effect writes is the item's state after the load.
C20_SavedIsRestored ==
    [][(boot = "mount" /\ boot' = "done") =>
        \A i \in Items :
            lsData[WriteKey(i)] # None => state'[i] = JSONParse(lsData[WriteKey(i)][1])]_vars

\* C21: on a page where loadData has not completed yet, no step other than
\* the completion of a load writes through: localStorage keeps its items,
\* the Drive adapter arms no timer, and no effect calls storage.set.
C21_NoWriteBeforeLoad ==
    [][(boot # "done" /\ obs'.ev # "loaded") =>
        /\ lsData' = lsData
        /\ timers' \subseteq timers
        /\ obs'.wrote = {}]_vars

\* C22: the client calls setItem and removeItem for the keys of DocKeys only,
\* so every other key the file holds is one the session never touched: no
\* step changes what the file holds under it.
C22_UntouchedKeyKept ==
    [][\A k \in Keys \ DocKeys :
          (remote.exists /\ remote.doc[k] # Absent) => remote'.doc[k] = remote.doc[k]]_vars

\* C23: when the loadAllData of a getItem completes, every value a setItem
\* put into the cache while the load was waiting is still in the cache.
\* (A key has a last-set value during a hydration only if the setItem came
\* after the getItem: a hydration starts on an empty cache.)
C23_HydrationKeepsWrite ==
    [][(obs'.ev = "getItem" /\ hydrating' # hydrating) =>
        \A k \in Keys : lastSet[k] # Absent => cache'[k] = lastSet[k]]_vars

\* C24: with a client that only writes and flushes that all succeed, once a
\* flush has completed with no timer pending and no flush in flight, the
\* file holds the cache.
C24_RemoteConverges ==
    (obs.ev = "flushed" /\ timers = {} /\ flights = <<>>) => remote.doc = cache

\* C25: the step that falls back to local storage (the catch of a failed
\* manual connect, or "Continue with Local Storage") leaves a local storage
\* from which the boot's rule selects local storage: no flag, and no stored
\* token that the recovery rule would turn into 'gdrive'.
C25_FallbackSurvivesBoot ==
    [][(obs'.alerted \/ obs'.ev = "continueLocal") => (RecoveredType = None)']_vars

\* C26: when every script load and request settles, the init effect reaches
\* isLoading = false from every content of local storage.
C26_BootLeavesLoading == <>(boot = "done" /\ ~isLoading)

\* the session was restored and the app is shown on the Drive adapter
C26_Witness == boot = "done" /\ ~isLoading /\ adapter = "gdrive" /\ obs.ev = "loaded" /\ obs.by = "init"

C28_PlannerHoursOrdered == plannerStartHour < plannerEndHour /\ plannerEndHour <= 24

\* the start select moved the end hour: 11 PM chosen, the day ends at midnight
C28_Witness == obs.ev = "startHour" /\ plannerStartHour = 23 /\ plannerEndHour = 24

\* C29: after bringWidgetToFront(w) the z-index of w is above that of every
\* other widget, a widget never clicked counting as 10, and the counter never
\* goes down.
C29_BroughtToFront ==
    [][/\ zIndexCounter' >= zIndexCounter
       /\ \A w \in Widgets : (obs'.ev = "front" /\ obs'.key = w) =>
            \A v \in Widgets \ {w} : ZIndex(widgetZIndices', w) > ZIndex(widgetZIndices', v)]_vars

\* a widget is brought in front of one that was clicked before
C29_Witness == obs.ev = "front" /\ \E v \in Widgets \ {obs.key} : widgetZIndices[v] # 0

\* C30: a request without a token is answered 401 and nothing is sent
\* upstream; with a token the upstream status is the status answered, and a
\* fetch that fails is answered 502.
C30_ProxyGuard ==
    proxy.variant # "" =>
        /\ MissingToken(proxy.token) => (proxy.status = 401 /\ ~proxy.sent)
        /\ (~MissingToken(proxy.token) /\ proxy.up.kind = "answer") => proxy.status = proxy.up.status
        /\ (~MissingToken(proxy.token) /\ proxy.up.kind = "reject") => proxy.status = 502

=========================================================================
